---- MODULE Spec2Model ----
(***************************************************************************)
(* A model of fireworks/core/firework.py: the Launch record (its state    *)
(* setter, state_history, touch_history and the timing queries computed   *)
(* from the history), the FireWork step (its two output forms and         *)
(* from_dict) and the construction of an FWAction.  Times are integers    *)
(* read from a clock `now` that stands for datetime.datetime.utcnow().    *)
(***************************************************************************)
EXTENDS Integers, Sequences, FiniteSets, TLC

VARIABLES
    pc,             \* "new" before Launch.__init__ runs, "live" once it returned, "ValueError" if it raised
    _state,         \* Launch._state
    state_history,  \* Launch.state_history: a sequence of entries [state, created_at, updated_at]
    action,         \* Launch.action: "None" or the command of the attached FWAction
    launch_id,      \* Launch.launch_id
    fw_id,          \* Launch.fw_id
    fworker,        \* Launch.fworker: "None" or the name of an FWorker
    launch_dir,     \* Launch.launch_dir
    host,           \* Launch.host
    ip,             \* Launch.ip
    supplied,       \* the state_history argument __init__ was called with (<<>> for None or [])
    now,            \* the value datetime.datetime.utcnow() returns
    op,             \* the latest step: its name, its argument and the state it found
    applied,        \* the scripted caller's assignments so far: the state and the clock value of each
    fw,             \* the FireWork: [made |-> FALSE] before FireWork.__init__ runs, then its fields
    m_dict,         \* the mapping FireWork.to_dict or FireWork.to_db_dict returned last
    loaded,         \* what FireWork.from_dict(m_dict) returned or raised last
    fwaction        \* the last FWAction(command, stored_data, mod_spec) call: its arguments and what it returned or raised

\* the fields of the Launch that only __init__ sets
launch_args == <<fworker, launch_dir, host, ip>>

\* the FireWork, its mappings and the FWAction
fwvars == <<fw, m_dict, loaded, fwaction>>

vars == <<pc, _state, state_history, action, launch_id, fw_id, fworker, launch_dir, host, ip,
          supplied, now, op, applied, fw, m_dict, loaded, fwaction>>

(* ---------------------------- bounds ---------------------------------- *)
\* longest state_history explored by Spec
MaxHist == 3
\* largest clock value explored by Spec
MaxClock == 1
\* largest clock value explored by SpecScript
MaxTime == 4

(* ------------------------- program constants -------------------------- *)
\* Python's None where the model has an integer (a missing time, id or
\* duration): no time, id or difference of two times of the model equals it
None == -1000

\* FireWork.STATE_RANKS
STATE_RANKS == [s \in {"DEFUSED", "WAITING", "READY", "FIZZLED", "RESERVED", "RUNNING", "CANCELED", "COMPLETED"} |->
                  CASE s = "DEFUSED" -> 0 [] s = "WAITING" -> 1 [] s = "READY" -> 2 [] s = "FIZZLED" -> 3
                    [] s = "RESERVED" -> 4 [] s = "RUNNING" -> 5 [] s = "CANCELED" -> 6 [] s = "COMPLETED" -> 7]

\* FWAction.commands
commands == {"CONTINUE", "DEFUSE", "MODIFY", "DETOUR", "CREATE", "PHOENIX", "BREAK"}

(* ------------------------------ inputs -------------------------------- *)
\* values a caller passes to Launch.__init__ as the state: the vocabulary and one value outside it
StateInputs == DOMAIN STATE_RANKS \cup {"BOGUS"}

\* values a caller assigns to Launch.state: the states the timing queries
\* look for, one other state of the vocabulary and one value outside it
AssignInputs == {"READY", "RESERVED", "RUNNING", "COMPLETED", "FIZZLED", "CANCELED", "BOGUS"}

\* the action argument of Launch.__init__: absent, or an FWAction (by its command)
ActionInputs == {"None", "CONTINUE"}

\* the optional fworker, host, ip, launch_id and fw_id arguments of
\* Launch.__init__: all omitted, or all given
OptionalInputs ==
    { [fworker |-> "None", host |-> "None", ip |-> "None", launch_id |-> None, fw_id |-> None],
      [fworker |-> "worker", host |-> "host1", ip |-> "10.0.0.1", launch_id |-> 1, fw_id |-> 2] }

\* the launch_dir argument of Launch.__init__
DirInputs == {"dir"}

\* fw_utilities.get_my_host() and get_my_ip(): the strings the environment resolves
get_my_host == "my_host"
get_my_ip == "my_ip"

\* one entry of state_history
Entry(s, c, u) == [state |-> s, created_at |-> c, updated_at |-> u]

\* the state_history argument of Launch.__init__: None/empty, histories as
\* to_dict stores them, and one with two consecutive equal states
SuppliedHistories == { <<>>,
                       <<Entry("RESERVED", 0, 0)>>,
                       <<Entry("RUNNING", 0, 0), Entry("FIZZLED", 0, 0)>>,
                       <<Entry("READY", 0, 0), Entry("READY", 0, 0)>> }

(* --------------------------- Launch methods --------------------------- *)
\* a constructor that checks nothing
ValidState_unchecked(state) == TRUE

\* Launch.__init__ line 168: the check of the initial state
ValidState(state) == state \in DOMAIN STATE_RANKS

\* a history update that appends without comparing with the last entry
_update_state_history_always(h, state, t) == Append(h, Entry(state, t, t))

\* a history update that compares with the first entry instead of the last
_update_state_history_first(h, state, t) ==
    LET last_state == IF Len(h) > 0 THEN h[1].state ELSE "None"
    IN  IF state # last_state THEN Append(h, Entry(state, t, t)) ELSE h

\* a history update that restarts the history instead of appending to it
_update_state_history_reset(h, state, t) ==
    LET last_state == IF Len(h) > 0 THEN h[Len(h)].state ELSE "None"
    IN  IF state # last_state THEN <<Entry(state, t, t)>> ELSE h

\* a history update that records nothing in an empty history
_update_state_history_nonempty(h, state, t) ==
    IF Len(h) > 0 /\ state # h[Len(h)].state THEN Append(h, Entry(state, t, t)) ELSE h

\* Launch._update_state_history, on history h at clock value t
_update_state_history(h, state, t) ==
    LET last_state == IF Len(h) > 0 THEN h[Len(h)].state ELSE "None"
    IN  IF state # last_state THEN Append(h, Entry(state, t, t)) ELSE h

\* a touch of the first entry (index 0) instead of the last (index -1)
touch_history_first(h, t) == [h EXCEPT ![1].updated_at = t]

\* Launch.touch_history, on history h at clock value t
touch_history(h, t) == [h EXCEPT ![Len(h)].updated_at = t]

\* a scan that returns updated_at whatever use_update_time says
RECURSIVE ScanHistory_updated(_, _, _, _)
ScanHistory_updated(h, i, states, use_update_time) ==
    IF i > Len(h) THEN None
    ELSE IF h[i].state \in states
         THEN h[i].updated_at
         ELSE ScanHistory_updated(h, i + 1, states, use_update_time)

\* the loop of Launch._get_time from index i on
RECURSIVE ScanHistory(_, _, _, _)
ScanHistory(h, i, states, use_update_time) ==
    IF i > Len(h) THEN None
    ELSE IF h[i].state \in states
         THEN (IF use_update_time THEN h[i].updated_at ELSE h[i].created_at)
         ELSE ScanHistory(h, i + 1, states, use_update_time)

\* Launch._get_time (states is the list the code makes of its argument)
_get_time(states, use_update_time) == ScanHistory(state_history, 1, states, use_update_time)

time_start == _get_time({"RUNNING"}, FALSE)
\* a time_end that looks for COMPLETED only
time_end_completed == _get_time({"COMPLETED"}, FALSE)

time_end == _get_time({"COMPLETED", "FIZZLED"}, FALSE)
time_reserved == _get_time({"RESERVED"}, FALSE)
time_ready == _get_time({"READY"}, FALSE)
last_pinged == _get_time({"RUNNING"}, TRUE)

\* a runtime_secs that subtracts the wrong way round
runtime_secs_reversed ==
    IF time_start # None /\ time_end # None THEN time_start - time_end ELSE None

\* Launch.runtime_secs (a datetime is always truthy: only None fails the test)
runtime_secs ==
    LET start == time_start
        end == time_end
    IN  IF start # None /\ end # None THEN end - start ELSE None

\* a queuedtime_secs that always measures up to the current clock value
queuedtime_secs_now ==
    IF time_reserved # None THEN now - time_reserved ELSE None

\* Launch.queuedtime_secs
queuedtime_secs ==
    LET start == time_reserved
    IN  IF start # None
        THEN LET end == IF time_start # None THEN time_start ELSE now
             IN  end - start
        ELSE None

(* ------------------------------ actions ------------------------------- *)
Call(name, arg) == [name |-> name, arg |-> arg, was |-> _state]

Init ==
    /\ pc = "new"
    /\ _state = "None"
    /\ state_history = <<>>
    /\ action = "None"
    /\ launch_id = None
    /\ fw_id = None
    /\ fworker = "None"
    /\ launch_dir = "None"
    /\ host = "None"
    /\ ip = "None"
    /\ supplied = <<>>
    /\ now = 0
    /\ op = [name |-> "none", arg |-> "None", was |-> "None"]
    /\ applied = <<>>
    /\ fw = [made |-> FALSE]
    /\ m_dict = [made |-> FALSE]
    /\ loaded = [called |-> FALSE]
    /\ fwaction = [called |-> FALSE]

\* Launch.__init__(state, dir, w, hst, addr, a, h, lid, fid)
Construct(state, dir, w, hst, addr, a, h, lid, fid) ==
    /\ pc = "new"
    /\ op' = Call("__init__", state)
    /\ supplied' = h
    /\ IF ~ValidState(state)
       THEN /\ pc' = "ValueError"
            /\ UNCHANGED <<_state, state_history, action, launch_id, fw_id, launch_args>>
       ELSE /\ pc' = "live"
            /\ fworker' = w
            /\ fw_id' = fid
            /\ host' = (IF hst # "None" THEN hst ELSE get_my_host)
            /\ ip' = (IF addr # "None" THEN addr ELSE get_my_ip)
            /\ launch_dir' = dir
            /\ action' = a
            /\ _state' = state
            /\ state_history' = _update_state_history(h, state, now)
            /\ launch_id' = lid
    /\ UNCHANGED now

\* the setter of Launch.state
SetState(value) ==
    /\ pc = "live"
    /\ op' = Call("set_state", value)
    /\ _state' = value
    /\ state_history' = _update_state_history(state_history, value, now)
    /\ UNCHANGED <<pc, action, launch_id, fw_id, launch_args, supplied, now>>

\* Launch.touch_history
Touch ==
    /\ pc = "live"
    /\ op' = Call("touch_history", "None")
    /\ state_history' = touch_history(state_history, now)
    /\ UNCHANGED <<pc, _state, action, launch_id, fw_id, launch_args, supplied, now>>

\* datetime.datetime.utcnow() advances between calls
Tick ==
    /\ now' = now + 1
    /\ op' = Call("tick", "None")
    /\ UNCHANGED <<pc, _state, state_history, action, launch_id, fw_id, launch_args, supplied>>

\* any caller: every argument of every call, within the bounds
Next ==
    \/ \E state \in StateInputs, dir \in DirInputs, a \in ActionInputs, h \in SuppliedHistories, o \in OptionalInputs :
          /\ Len(h) < MaxHist
          /\ Construct(state, dir, o.fworker, o.host, o.ip, a, h, o.launch_id, o.fw_id)
          /\ UNCHANGED <<applied, fwvars>>
    \/ \E value \in AssignInputs :
          /\ Len(_update_state_history(state_history, value, now)) <= MaxHist
          /\ SetState(value) /\ UNCHANGED <<applied, fwvars>>
    \/ Touch /\ UNCHANGED <<applied, fwvars>>
    \/ now < MaxClock /\ Tick /\ UNCHANGED <<applied, fwvars>>

Spec == Init /\ [][Next]_vars

(* ------------- a scripted caller: READY, RESERVED, RUNNING, COMPLETED ------------- *)
\* the states the caller assigns, in order (the first one by construction)
Script == <<"READY", "RESERVED", "RUNNING", "COMPLETED">>

\* Launch(Script[1], launch_dir): no state_history supplied
ScriptConstruct ==
    /\ \E dir \in DirInputs, a \in ActionInputs, o \in OptionalInputs :
          Construct(Script[1], dir, o.fworker, o.host, o.ip, a, <<>>, o.launch_id, o.fw_id)
    /\ applied' = <<[state |-> Script[1], at |-> now]>>
    /\ UNCHANGED fwvars

\* launch.state = the next state of the script
ScriptSetState ==
    /\ Len(applied) < Len(Script)
    /\ SetState(Script[Len(applied) + 1])
    /\ applied' = Append(applied, [state |-> Script[Len(applied) + 1], at |-> now])
    /\ UNCHANGED fwvars

NextScript ==
    \/ ScriptConstruct
    \/ ScriptSetState
    \/ Touch /\ UNCHANGED <<applied, fwvars>>
    \/ now < MaxTime /\ Tick /\ UNCHANGED <<applied, fwvars>>

SpecScript == Init /\ [][NextScript]_vars

(* ------------------- serialized values and results ------------------- *)
\* a value inside a mapping carries its Python type: None, an int, or a
\* mapping (a record with type "dict" and the mapping's keys)
PyNone == [type |-> "NoneType"]
PyInt(n) == [type |-> "int", value |-> n]
IsDict(x) == x.type = "dict"

\* an id as a value of a mapping (None stays None)
PyId(n) == IF n = None THEN PyNone ELSE PyInt(n)

\* a call that returned obj, and a call that raised error
Ok(x) == [ok |-> TRUE, obj |-> x]
Err(e) == [ok |-> FALSE, error |-> e]

(* ------------------------------ FWAction ------------------------------ *)
\* an FWAction.__init__ that accepts any command
FWAction_new_unchecked(command, stored_data, mod_spec) ==
    Ok([command |-> command,
        stored_data |-> IF stored_data # "None" THEN stored_data ELSE "{}",
        mod_spec |-> IF mod_spec # "None" THEN mod_spec ELSE "{}"])

\* FWAction.__init__(command, stored_data, mod_spec)
FWAction_new(command, stored_data, mod_spec) ==
    IF command \notin commands
    THEN Err("ValueError")
    ELSE Ok([command |-> command,
             stored_data |-> IF stored_data # "None" THEN stored_data ELSE "{}",
             mod_spec |-> IF mod_spec # "None" THEN mod_spec ELSE "{}"])

\* FWAction.to_dict, of the action a Launch holds (by its command; its
\* stored_data and mod_spec are empty)
FWAction_to_dict(a) == [type |-> "dict", action |-> a, stored_data |-> "{}", mod_spec |-> "{}"]

\* FWAction.from_dict (a mod_spec without 'create_fw')
FWAction_from_dict(m) == FWAction_new(m.action, m.stored_data, m.mod_spec)

(* ------------------------------- FWorker ------------------------------ *)
\* FWorker.to_dict: the mapping of a worker
FWorker_to_dict(w) == [type |-> "dict", name |-> w]

\* FWorker.from_dict: a worker from its mapping; anything else is not a mapping to read
FWorker_from_dict(m) == IF IsDict(m) THEN Ok(m.name) ELSE Err("DeserializationError")

(* ---------------------- Launch, as an object value -------------------- *)
\* Launch.__init__ at clock value t: the object it makes, or the error it raises
NewLaunch(state, dir, w, hst, addr, a, h, lid, fid, t) ==
    IF ~ValidState(state)
    THEN Err("ValueError")
    ELSE Ok([fworker |-> w,
             fw_id |-> fid,
             host |-> IF hst # "None" THEN hst ELSE get_my_host,
             ip |-> IF addr # "None" THEN addr ELSE get_my_ip,
             launch_dir |-> dir,
             action |-> a,
             state_history |-> _update_state_history(h, state, t),
             state |-> state,
             launch_id |-> lid])

\* the Launch the variables describe
Self ==
    [fworker |-> fworker, fw_id |-> fw_id, host |-> host, ip |-> ip, launch_dir |-> launch_dir,
     action |-> action, state_history |-> state_history, state |-> _state, launch_id |-> launch_id]

\* Launch.to_dict (recursive_serialize turns the worker and the action into
\* their mappings and leaves None as it is)
Launch_to_dict(l) ==
    [type |-> "dict",
     fworker |-> IF l.fworker = "None" THEN PyNone ELSE FWorker_to_dict(l.fworker),
     fw_id |-> l.fw_id, launch_dir |-> l.launch_dir, host |-> l.host, ip |-> l.ip,
     action |-> IF l.action = "None" THEN PyNone ELSE FWAction_to_dict(l.action),
     state |-> l.state, state_history |-> l.state_history, launch_id |-> l.launch_id]

\* Launch.from_dict at clock value t (an int has no keys to read)
Launch_from_dict(m, t) ==
    IF ~IsDict(m)
    THEN Err("TypeError")
    ELSE LET w == FWorker_from_dict(m.fworker)
             a == IF IsDict(m.action) THEN FWAction_from_dict(m.action) ELSE Ok([command |-> "None"])
         IN  IF ~w.ok THEN w
             ELSE IF ~a.ok THEN a
             ELSE NewLaunch(m.state, m.launch_dir, w.obj, m.host, m.ip, a.obj.command,
                            m.state_history, m.launch_id, m.fw_id, t)

(* ------------------------------ FireWork ------------------------------ *)
\* FireTaskBase.to_dict with serialize_fw: the mapping of a task, and the
\* task recursive_deserialize loads from it
Task_to_dict(task) == [type |-> "dict", _fw_name |-> task.name]
Task_load(m) == [type |-> "task", name |-> m._fw_name]

\* FireWork.__init__(tasks, spec, fw_id, launches, state, created_at) at clock value t
FireWork_new(tasks, spec, fid, launches, state, created_at, t) ==
    LET task_list == IF tasks.type # "list" THEN <<tasks>> ELSE tasks.items
        keys == IF IsDict(spec) /\ spec.keys # {} THEN spec.keys ELSE {}
    IN  [made |-> TRUE,
         tasks |-> task_list,
         spec |-> [type |-> "dict", keys |-> keys,
                   _tasks |-> [i \in 1..Len(task_list) |-> Task_to_dict(task_list[i])]],
         fw_id |-> fid,
         launches |-> launches,
         created_at |-> IF created_at # None THEN created_at ELSE t,
         state |-> state]

\* a to_dict that stores 'launches' and 'state' whatever they are
FireWork_to_dict_always(f) ==
    [type |-> "dict", spec |-> f.spec, fw_id |-> f.fw_id, created_at |-> f.created_at,
     launches |-> [i \in 1..Len(f.launches) |-> Launch_to_dict(f.launches[i])],
     state |-> f.state]

\* FireWork.to_dict
FireWork_to_dict(f) ==
    LET m_base == [type |-> "dict", spec |-> f.spec, fw_id |-> f.fw_id, created_at |-> f.created_at]
        m_launches == IF Len(f.launches) > 0
                      THEN [launches |-> [i \in 1..Len(f.launches) |-> Launch_to_dict(f.launches[i])]] @@ m_base
                      ELSE m_base
    IN  IF f.state # "WAITING" THEN [state |-> f.state] @@ m_launches ELSE m_launches

\* FireWork.to_db_dict
FireWork_to_db_dict(f) ==
    [launches |-> [i \in 1..Len(f.launches) |-> PyId(f.launches[i].launch_id)],
     state |-> f.state] @@ FireWork_to_dict(f)

\* FireWork.from_dict at clock value t
FireWork_from_dict(m, t) ==
    LET tasks == [i \in 1..Len(m.spec._tasks) |-> Task_load(m.spec._tasks[i])]
        l == IF "launches" \in DOMAIN m /\ Len(m.launches) > 0
             THEN [i \in 1..Len(m.launches) |-> Launch_from_dict(m.launches[i], t)]
             ELSE <<>>
        failed == {i \in 1..Len(l) : ~l[i].ok}
        fid == IF "fw_id" \in DOMAIN m THEN m.fw_id ELSE -1
        state == IF "state" \in DOMAIN m THEN m.state ELSE "WAITING"
        created_at == IF "created_at" \in DOMAIN m THEN m.created_at ELSE None
    IN  IF failed # {}
        THEN l[CHOOSE i \in failed : \A j \in failed : i <= j]
        ELSE Ok(FireWork_new([type |-> "list", items |-> tasks], m.spec, fid,
                             [i \in 1..Len(l) |-> l[i].obj], state, created_at, t))

(* --------------- a caller of FireWork and FWAction -------------------- *)
\* most launches a FireWork is given
MaxLaunches == 3

\* the command argument of FWAction.__init__: the vocabulary and strings outside it
CommandInputs == commands \cup {"BOGUS", "continue", ""}

\* the stored_data and mod_spec arguments of FWAction.__init__: omitted, an
\* empty mapping, or a mapping with content
DataInputs == {"None", "{}", "data"}

\* the tasks argument of FireWork.__init__: one task, or a list of tasks
TasksInputs == { [type |-> "task", name |-> "t1"],
                 [type |-> "list", items |-> <<[type |-> "task", name |-> "t1"], [type |-> "task", name |-> "t2"]>>] }

\* the spec argument of FireWork.__init__: omitted, or a mapping (by its keys)
SpecInputs == { PyNone, [type |-> "dict", keys |-> {"k"}] }

\* the fw_id, state and created_at arguments of FireWork.__init__
FwIdInputs == {-1, 5}
FwStateInputs == {"WAITING", "READY", "COMPLETED"}
CreatedAtInputs == {None, 0}

\* the launch with id i that Launch('RUNNING', dir, ...) makes at clock value 0
LaunchInput(i, o) == NewLaunch("RUNNING", "dir", o.fworker, o.host, o.ip, "None", <<>>, i, o.fw_id, 0).obj

\* the launches argument of FireWork.__init__: omitted, or launches 1..n
LaunchesInputs ==
    {<<>>} \cup { [i \in 1..n |-> LaunchInput(i, o)] : n \in 1..MaxLaunches, o \in OptionalInputs }

\* FireWork(tasks, spec, fid, launches, state, created_at)
FWConstruct(tasks, spec, fid, launches, state, created_at) ==
    /\ ~fw.made
    /\ fw' = FireWork_new(tasks, spec, fid, launches, state, created_at, now)
    /\ op' = Call("FireWork.__init__", state)
    /\ UNCHANGED <<m_dict, loaded, fwaction>>

\* m_dict = fw.to_dict()
FWToDict ==
    /\ fw.made
    /\ m_dict' = FireWork_to_dict(fw)
    /\ op' = Call("FireWork.to_dict", "None")
    /\ UNCHANGED <<fw, loaded, fwaction>>

\* m_dict = fw.to_db_dict()
FWToDbDict ==
    /\ fw.made
    /\ m_dict' = FireWork_to_db_dict(fw)
    /\ op' = Call("FireWork.to_db_dict", "None")
    /\ UNCHANGED <<fw, loaded, fwaction>>

\* FireWork.from_dict(m_dict)
FWFromDict ==
    /\ "type" \in DOMAIN m_dict
    /\ loaded' = [called |-> TRUE, m_dict |-> m_dict] @@ FireWork_from_dict(m_dict, now)
    /\ op' = Call("FireWork.from_dict", "None")
    /\ UNCHANGED <<fw, m_dict, fwaction>>

\* FWAction(command, stored_data, mod_spec)
FWActionConstruct(command, stored_data, mod_spec) ==
    /\ fwaction' = [called |-> TRUE, command |-> command, stored_data |-> stored_data, mod_spec |-> mod_spec]
                    @@ FWAction_new(command, stored_data, mod_spec)
    /\ op' = Call("FWAction.__init__", command)
    /\ UNCHANGED <<fw, m_dict, loaded>>

\* the Launch of Spec, untouched by this caller
launch_vars == <<pc, _state, state_history, action, launch_id, fw_id, launch_args, supplied, applied>>

NextFW ==
    \/ \E tasks \in TasksInputs, spec \in SpecInputs, fid \in FwIdInputs, launches \in LaunchesInputs,
          state \in FwStateInputs, created_at \in CreatedAtInputs :
          FWConstruct(tasks, spec, fid, launches, state, created_at) /\ UNCHANGED <<launch_vars, now>>
    \/ FWToDict /\ UNCHANGED <<launch_vars, now>>
    \/ FWToDbDict /\ UNCHANGED <<launch_vars, now>>
    \/ FWFromDict /\ UNCHANGED <<launch_vars, now>>
    \/ now < MaxClock /\ Tick /\ UNCHANGED <<applied, fwvars>>

SpecFW == Init /\ [][NextFW]_vars

\* a caller that makes FWActions
NextAction ==
    \/ \E command \in CommandInputs, stored_data \in DataInputs, mod_spec \in DataInputs :
          FWActionConstruct(command, stored_data, mod_spec) /\ UNCHANGED <<launch_vars, now>>
    \/ now < MaxClock /\ Tick /\ UNCHANGED <<applied, fwvars>>

SpecAction == Init /\ [][NextAction]_vars

(* ------------------------------ properties ---------------------------- *)
\* the shared state vocabulary
Vocabulary == {"DEFUSED", "WAITING", "READY", "FIZZLED", "RESERVED", "RUNNING", "CANCELED", "COMPLETED"}

\* no two consecutive entries of h have the same state
NoRepeat(h) == \A i \in 1..(Len(h) - 1) : h[i].state # h[i + 1].state

\* the last entry of state_history
LastEntry == state_history[Len(state_history)]

\* the largest element of a non-empty set of integers
Max(S) == CHOOSE x \in S : \A y \in S : y <= x

\* C1: a Launch built with no state_history, or with one that has no two
\* consecutive equal states, never has two consecutive entries of
\* state_history with the same state, whatever is assigned or touched.
C1_NoConsecutiveRepeat == (pc = "live" /\ NoRepeat(supplied)) => NoRepeat(state_history)

C1_Witness ==
    /\ pc = "live" /\ NoRepeat(supplied)
    /\ Len(state_history) = 3
    /\ op.name = "set_state" /\ op.arg = op.was

\* C2: assigning to a Launch the state it has leaves the state and every entry
\* of state_history (state, created_at, updated_at) as they were.
C2_SameStateIsNoOp ==
    [][(op'.name = "set_state" /\ op'.arg = _state) =>
          (state_history' = state_history /\ _state' = _state)]_vars

C2_Witness ==
    /\ op.name = "set_state" /\ op.arg = op.was
    /\ Len(state_history) = 2
    /\ state_history[1].state # op.arg
    /\ now > LastEntry.updated_at

\* C3: an assignment of a state other than the last recorded one appends
\* exactly the entry {state, created_at: now, updated_at: now}; no assignment
\* removes, reorders or alters an earlier entry.
C3_AppendOnly ==
    [][op'.name = "set_state" =>
          /\ Len(state_history') >= Len(state_history)
          /\ SubSeq(state_history', 1, Len(state_history)) = state_history
          /\ op'.arg # LastEntry.state =>
                state_history' = state_history \o <<[state |-> op'.arg, created_at |-> now, updated_at |-> now]>>]_vars

C3_Witness ==
    /\ op.name = "set_state" /\ op.arg # op.was
    /\ Len(state_history) = 3
    /\ LastEntry.state = op.arg /\ LastEntry.created_at = now /\ now > 0

\* C4: touch_history sets the updated_at of the last entry to now and changes
\* nothing else: not the length, not any state or created_at, not the
\* updated_at of an earlier entry, not the Launch's state, action or ids.
C4_TouchFrame ==
    [][op'.name = "touch_history" =>
          /\ Len(state_history') = Len(state_history)
          /\ \A i \in 1..Len(state_history) :
                /\ state_history'[i].state = state_history[i].state
                /\ state_history'[i].created_at = state_history[i].created_at
                /\ i < Len(state_history) => state_history'[i].updated_at = state_history[i].updated_at
          /\ state_history'[Len(state_history)].updated_at = now
          /\ UNCHANGED <<_state, action, launch_id, fw_id, launch_args>>]_vars

C4_Witness ==
    /\ op.name = "touch_history"
    /\ Len(state_history) >= 2
    /\ LastEntry.updated_at = now /\ LastEntry.updated_at > LastEntry.created_at

\* C5: last_pinged is the largest updated_at over the RUNNING entries of
\* state_history (absent when there is none).
C5_LastPingedIsLatest ==
    pc = "live" =>
        LET running == {i \in 1..Len(state_history) : state_history[i].state = "RUNNING"}
        IN  last_pinged = IF running = {} THEN None
                          ELSE Max({state_history[i].updated_at : i \in running})

\* C6: once the state is COMPLETED or FIZZLED and an action is attached, no
\* step changes the Launch's state or its state_history.
C6_TerminalIsImmutable ==
    [][(pc = "live" /\ _state \in {"COMPLETED", "FIZZLED"} /\ action # "None") =>
          UNCHANGED <<_state, state_history>>]_vars

\* C7: the state of a constructed Launch and the state of every entry of its
\* state_history are members of the vocabulary.
C7_StatesInVocabulary ==
    pc = "live" =>
        /\ _state \in Vocabulary
        /\ \A i \in 1..Len(state_history) : state_history[i].state \in Vocabulary

\* C8: assigning again a state that is already in state_history, after other
\* states were assigned, leaves the Launch's state and state_history as they were.
C8_LateDuplicateIsNoOp ==
    [][(/\ op'.name = "set_state"
        /\ op'.arg # _state
        /\ \E i \in 1..Len(state_history) : state_history[i].state = op'.arg) =>
          UNCHANGED <<_state, state_history>>]_vars

\* C9: construction with a state outside the vocabulary raises ValueError and
\* makes no Launch; construction with a state of the vocabulary succeeds.
C9_ConstructionValidates ==
    /\ (op.name = "__init__" /\ op.arg \notin Vocabulary) => pc = "ValueError"
    /\ pc = "ValueError" =>
          /\ _state = "None" /\ state_history = <<>> /\ action = "None"
          /\ launch_id = None /\ fw_id = None
    /\ (op.name = "__init__" /\ op.arg \in Vocabulary) => (pc = "live" /\ _state = op.arg)

C9_Witness == pc = "ValueError" /\ op.name = "__init__" /\ op.arg = "BOGUS" /\ Len(supplied) > 0

\* C10: after READY, RESERVED, RUNNING, COMPLETED assigned at clock values
\* t0 <= t1 <= t2 <= t3, with touches in between, time_ready = t0,
\* time_reserved = t1, time_start = t2, time_end = t3,
\* queuedtime_secs = t2 - t1 and runtime_secs = t3 - t2.
C10_ScriptTimes ==
    Len(applied) = 4 =>
        /\ time_ready = applied[1].at
        /\ time_reserved = applied[2].at
        /\ time_start = applied[3].at
        /\ time_end = applied[4].at
        /\ queuedtime_secs = applied[3].at - applied[2].at
        /\ runtime_secs = applied[4].at - applied[3].at

C10_Witness ==
    /\ Len(applied) = 4
    /\ applied[1].at < applied[2].at /\ applied[2].at < applied[3].at /\ applied[3].at < applied[4].at
    /\ \A i \in 1..3 : state_history[i].updated_at > state_history[i].created_at
    /\ LastEntry.updated_at > LastEntry.created_at

\* state_history has an entry whose state is in states
HasEntry(states) == \E i \in 1..Len(state_history) : state_history[i].state \in states

\* the index of the first entry of state_history whose state is in states (0 if none)
FirstIndex(states) ==
    IF HasEntry(states)
    THEN CHOOSE i \in 1..Len(state_history) :
            /\ state_history[i].state \in states
            /\ \A j \in 1..(i - 1) : state_history[j].state \notin states
    ELSE 0

\* C11: runtime_secs is defined exactly when state_history has a RUNNING
\* entry and a COMPLETED or FIZZLED entry; with no RUNNING entry, time_start,
\* runtime_secs and last_pinged are all absent.
C11_RuntimeDefined ==
    pc = "live" =>
        /\ (runtime_secs # None) <=> (HasEntry({"RUNNING"}) /\ HasEntry({"COMPLETED", "FIZZLED"}))
        /\ ~HasEntry({"RUNNING"}) => (time_start = None /\ runtime_secs = None /\ last_pinged = None)

C11_Witness ==
    /\ pc = "live"
    /\ HasEntry({"RUNNING"}) /\ HasEntry({"FIZZLED"}) /\ ~HasEntry({"COMPLETED"})
    /\ runtime_secs = 1

\* C12: queuedtime_secs is absent exactly when state_history has no RESERVED
\* entry; otherwise it is time_start - time_reserved when there is a RUNNING
\* entry and now - time_reserved when there is none.
C12_QueuedTime ==
    pc = "live" =>
        /\ (queuedtime_secs = None) <=> ~HasEntry({"RESERVED"})
        /\ HasEntry({"RESERVED"}) =>
              queuedtime_secs = (IF HasEntry({"RUNNING"})
                                 THEN state_history[FirstIndex({"RUNNING"})].created_at
                                 ELSE now)
                                - state_history[FirstIndex({"RESERVED"})].created_at

C12_Witness ==
    /\ pc = "live"
    /\ HasEntry({"RESERVED"}) /\ HasEntry({"RUNNING"})
    /\ FirstIndex({"RESERVED"}) < FirstIndex({"RUNNING"})
    /\ queuedtime_secs = 0 /\ now = 1

\* C17: the state of a constructed Launch is the state of the last entry of
\* state_history, with or without a supplied state_history.
C17_StateIsLastEntry == pc = "live" => (Len(state_history) > 0 /\ _state = LastEntry.state)

C17_Witness ==
    /\ pc = "live" /\ Len(supplied) = 2
    /\ Len(state_history) = 3
    /\ op.name = "set_state" /\ op.arg = state_history[1].state /\ op.arg # op.was

\* C18: state_history is never empty once Launch.__init__ has returned, so
\* touch_history always finds a last entry.
C18_HistoryNonEmpty == pc = "live" => Len(state_history) >= 1

C18_Witness ==
    /\ pc = "live" /\ supplied = <<>>
    /\ Len(state_history) = 1
    /\ op.name = "touch_history" /\ LastEntry.updated_at = 1

\* C19: with no supplied state_history, every entry has created_at <=
\* updated_at, and the updated_at of an entry is <= the created_at of the next.
C19_TimesOrdered ==
    (pc = "live" /\ supplied = <<>>) =>
        \A i \in 1..Len(state_history) :
            /\ state_history[i].created_at <= state_history[i].updated_at
            /\ i < Len(state_history) => state_history[i].updated_at <= state_history[i + 1].created_at

C19_Witness ==
    /\ pc = "live" /\ supplied = <<>>
    /\ Len(state_history) = 2
    /\ state_history[1].created_at < state_history[1].updated_at
    /\ state_history[2].created_at = state_history[1].updated_at

\* C20 as claimed: for a Launch built with no supplied state_history,
\* runtime_secs and queuedtime_secs are non-negative whenever they are defined.
C20_DurationsNonNegative ==
    (pc = "live" /\ supplied = <<>>) =>
        /\ runtime_secs # None => runtime_secs >= 0
        /\ queuedtime_secs # None => queuedtime_secs >= 0

\* C20 as amended: runtime_secs is non-negative when the first RUNNING entry
\* comes before the first COMPLETED or FIZZLED entry, and queuedtime_secs is
\* non-negative when no RUNNING entry comes before the first RESERVED entry.
C20_DurationsNonNegativeInOrder ==
    (pc = "live" /\ supplied = <<>>) =>
        /\ (runtime_secs # None /\ FirstIndex({"RUNNING"}) < FirstIndex({"COMPLETED", "FIZZLED"})) =>
              runtime_secs >= 0
        /\ (/\ queuedtime_secs # None
            /\ (HasEntry({"RUNNING"}) => FirstIndex({"RESERVED"}) < FirstIndex({"RUNNING"}))) =>
              queuedtime_secs >= 0

C20_Witness ==
    /\ pc = "live" /\ supplied = <<>>
    /\ FirstIndex({"RESERVED"}) = 1 /\ FirstIndex({"RUNNING"}) = 2 /\ FirstIndex({"COMPLETED", "FIZZLED"}) = 3
    /\ runtime_secs = 1 /\ queuedtime_secs = 0

\* the launches of a mapping are n ids
IsIdList(m, n) ==
    /\ "launches" \in DOMAIN m /\ Len(m.launches) = n
    /\ \A i \in 1..n : m.launches[i].type = "int"

\* C13: FireWork.from_dict of a storage-form mapping whose 'launches' is a
\* list of three integer ids succeeds, and the launches of the FireWork it
\* makes are those three ids, in order.
C13_FromDictKeepsIds ==
    (loaded.called /\ IsIdList(loaded.m_dict, 3)) =>
        (loaded.ok /\ loaded.obj.launches = loaded.m_dict.launches)

\* l and its round trip have the same observable fields
SameLaunch(l, r) ==
    /\ r.ok
    /\ r.obj.state = l.state /\ r.obj.launch_dir = l.launch_dir /\ r.obj.host = l.host /\ r.obj.ip = l.ip
    /\ r.obj.action = l.action /\ r.obj.launch_id = l.launch_id /\ r.obj.fw_id = l.fw_id
    /\ r.obj.state_history = l.state_history

\* C14: Launch.from_dict(to_dict(x)) succeeds for every reachable Launch and
\* gives back its state, launch_dir, host, ip, action, ids and state_history;
\* FireWork.from_dict(to_dict(x)) gives back fw_id, state, created_at,
\* launches and spec.
C14_RoundTrip ==
    /\ pc = "live" => SameLaunch(Self, Launch_from_dict(Launch_to_dict(Self), now))
    /\ fw.made =>
          LET r == FireWork_from_dict(FireWork_to_dict(fw), now)
          IN  /\ r.ok
              /\ r.obj.fw_id = fw.fw_id /\ r.obj.state = fw.state /\ r.obj.created_at = fw.created_at
              /\ r.obj.launches = fw.launches /\ r.obj.spec = fw.spec

\* C15: to_dict has 'launches' exactly when there is a launch and 'state'
\* exactly when the state is not WAITING; to_db_dict always has 'state' and
\* has 'launches' as the launch ids, in order.
C15_OutputForms ==
    /\ op.name = "FireWork.to_dict" =>
          /\ ("launches" \in DOMAIN m_dict) <=> (Len(fw.launches) >= 1)
          /\ ("state" \in DOMAIN m_dict) <=> (fw.state # "WAITING")
    /\ op.name = "FireWork.to_db_dict" =>
          /\ "state" \in DOMAIN m_dict /\ m_dict.state = fw.state
          /\ "launches" \in DOMAIN m_dict /\ Len(m_dict.launches) = Len(fw.launches)
          /\ \A i \in 1..Len(fw.launches) :
                m_dict.launches[i] = (IF fw.launches[i].launch_id = None THEN [type |-> "NoneType"]
                                      ELSE [type |-> "int", value |-> fw.launches[i].launch_id])

C15_Witness ==
    /\ op.name = "FireWork.to_dict"
    /\ fw.state = "WAITING" /\ fw.launches = <<>>
    /\ DOMAIN m_dict = {"type", "spec", "fw_id", "created_at"}

\* C16: FWAction construction succeeds for each of the 7 commands and raises
\* ValueError, making no object, for any other command.
C16_CommandValidated ==
    fwaction.called =>
        IF fwaction.command \in {"CONTINUE", "DEFUSE", "MODIFY", "DETOUR", "CREATE", "PHOENIX", "BREAK"}
        THEN fwaction.ok /\ fwaction.obj.command = fwaction.command
        ELSE ~fwaction.ok /\ fwaction.error = "ValueError" /\ "obj" \notin DOMAIN fwaction

C16_Witness == fwaction.called /\ fwaction.command = "continue" /\ ~fwaction.ok
====
